---- MODULE Spec2Model ----
(***************************************************************************)
(* Command Registry + Command Dispatcher of the MCP tool runtime.          *)
(*                                                                         *)
(* CommandDispatcher.dispatch is an async function: everything up to its   *)
(* only await (the result of executeWithTimeout) runs in one synchronous   *)
(* step, the continuation after the await runs in a later step.  The       *)
(* handler's promise and the timer of withTimeout settle in steps of       *)
(* their own; Promise.race keeps the first settlement.                     *)
(***************************************************************************)
EXTENDS Naturals, Sequences, FiniteSets, TLC

(***************************************************************************)
(* Bounds and configuration                                                *)
(***************************************************************************)

\* config.maxConcurrentExecutions of the dispatcher under analysis
MaxConcurrentExecutions == 2

\* number of dispatch calls issued in one behaviour: one more than the ceiling
MaxCalls == MaxConcurrentExecutions + 1

\* number of dispatch calls issued in one behaviour of Spec, where every
\* behaviour of the schema and of the handler is explored
MaxDetailedCalls == 1

\* config.defaultTimeout || 30000
DefaultTimeout == 30000

\* config.enableTracing ?? true
EnableTracing == TRUE

\* the command names requests may carry
ToolNames == {"echo", "slow"}

\* tool.metadata?.constraints?.maxExecutionTime of each command (0: not declared)
MaxExecutionTime(name) == IF name = "slow" THEN 50 ELSE 0

RequestIds == 1..MaxCalls

\* the request ids of the dispatch calls issued in one behaviour of Spec
DetailedIds == 1..MaxDetailedCalls

(***************************************************************************)
(* Values a handler may resolve with, and things that may be thrown        *)
(***************************************************************************)

\* a JavaScript value: its type tag and its text
Value(t, v) == [t |-> t, v |-> v]

Undefined == Value("undefined", <<>>)

\* what a handler may resolve with: a string, the empty string, undefined,
\* a plain object, an object already shaped as an MCP response, and an
\* object JSON.stringify cannot serialise (a cyclic structure)
HandlerValues ==
    { Value("string", <<"hi">>), Value("string", <<>>), Undefined,
      Value("object", <<"k">>), Value("mcp", <<"hi">>), Value("cyclic", <<"k">>) }

\* JavaScript truthiness of a value (result.result in `result.success && result.result`)
Truthy(val) == ~(val.t = "undefined" \/ (val.t = "string" /\ val.v = <<>>))

\* a thrown value: cls is "ToolError" (a ToolError or subclass), "Error" (any
\* other Error), "string" (a non-Error with a string conversion) or "exotic"
\* (a non-Error whose string conversion itself throws)
Thrown(cls, code, toolName, msg, timeout) ==
    [cls |-> cls, code |-> code, toolName |-> toolName, msg |-> msg, timeout |-> timeout]

ToolNotFoundError(toolName) ==
    Thrown("ToolError", "TOOL_NOT_FOUND", toolName, "not found", 0)

ToolValidationError(toolName, validationMessage) ==
    Thrown("ToolError", "VALIDATION_ERROR", toolName, validationMessage, 0)

ToolExecutionError(toolName, executionMessage) ==
    Thrown("ToolError", "EXECUTION_ERROR", toolName, executionMessage, 0)

ToolTimeoutError(toolName, timeout) ==
    Thrown("ToolError", "TIMEOUT_ERROR", toolName, "execution timed out after", timeout)

\* new ToolError(`Maximum concurrent executions (...) reached`, 'RESOURCE_ERROR', toolName)
ResourceError(toolName) ==
    Thrown("ToolError", "RESOURCE_ERROR", toolName, "Maximum concurrent executions reached", 0)

\* the TypeError of String(x) for an x with no string conversion, and of
\* JSON.stringify for a cyclic structure
TypeError(msg) == Thrown("Error", "", "", msg, 0)

NoError == Thrown("none", "", "", "", 0)

\* what a handler may throw or reject with
HandlerThrows ==
    { Thrown("ToolError", "PERMISSION_ERROR", "echo", "denied", 0),
      Thrown("Error", "", "", "boom", 0),
      Thrown("string", "", "", "boom", 0),
      Thrown("exotic", "", "", "", 0) }

\* the error codes of ToolErrorCode
ToolErrorCodes ==
    { "TOOL_NOT_FOUND", "DUPLICATE_TOOL", "VALIDATION_ERROR", "EXECUTION_ERROR",
      "TIMEOUT_ERROR", "SANDBOX_ERROR", "PERMISSION_ERROR", "RESOURCE_ERROR",
      "UNKNOWN_ERROR" }

(***************************************************************************)
(* State                                                                   *)
(***************************************************************************)
VARIABLES
    tools,             \* ToolRegistry.tools: name -> registration (registered, enabled)
    activeExecutions,  \* CommandDispatcher.activeExecutions: the request ids in flight
    executionCounter,  \* CommandDispatcher.executionCounter
    pc,                \* per dispatch call: "idle", "awaiting" (suspended at the await), "done"
    request,           \* per dispatch call: request.params: name and (the class of) arguments
    exec,              \* per dispatch call: the settlement of executeWithTimeout's promise
    handler,           \* per dispatch call: the handler's promise: "none", "running", "settled"
    timer,             \* per dispatch call: the timer of withTimeout: "none", "armed", "fired"
    published,         \* per request id: the execution events published, in order
    response,          \* per dispatch call: what dispatch returned (or that it raised)
    handlerCalls       \* per command name: how many times execute was invoked

VARIABLES
    installed,         \* ToolRegistry.tools: name -> the registration's tool, source, registeredAt
    healthCache,       \* ToolRegistry.healthCache: name -> cached ToolHealthStatus
    now,               \* Date.now(), in milliseconds
    registryCalls,     \* the calls made on the registry, in order: operation, position, outcome
    lifecycle          \* per command name: the states of its tool:lifecycle events, in order

VARIABLES
    listeners,           \* EventBus.listeners: event name -> the Set of its ListenerSources
    handlerSets,         \* the Set objects created by on: their current members
    listenerSources,     \* the ListenerSources created by on / once, and what their closure captured
    totalListenerCount,  \* EventBus.totalListenerCount
    delivered            \* the ListenerSources whose handler the latest emit invoked

VARIABLES
    personas,            \* PersonaRegistry.personas: the entries of the Map, in insertion order
    personaCalls         \* how many times PersonaRegistry.register was called

registryVars == << installed, healthCache, now, registryCalls, lifecycle >>

busVars == << listeners, handlerSets, listenerSources, totalListenerCount, delivered >>

personaVars == << personas, personaCalls >>

vars == << tools, activeExecutions, executionCounter, pc, request, exec, handler,
           timer, published, response, handlerCalls, registryVars, busVars, personaVars >>


(***************************************************************************)
(* Records                                                                 *)
(***************************************************************************)

\* a ToolRegistration, reduced to whether it exists and its enabled flag
NoRegistration == [registered |-> FALSE, enabled |-> FALSE]

Registration(enabled) == [registered |-> TRUE, enabled |-> enabled]

\* an event published on the bus for one request id
Event(type, success, code) == [type |-> type, success |-> success, code |-> code]

\* the settlement of the promise executeWithTimeout returns: pending, resolved
\* with a ToolExecutionResult {success, result, error}, or rejected with error
Pending == [state |-> "pending", success |-> FALSE, result |-> Undefined, error |-> NoError]

ResultSuccess(result) ==
    [state |-> "resolved", success |-> TRUE, result |-> result, error |-> NoError]

ResultFailure(error) ==
    [state |-> "resolved", success |-> FALSE, result |-> Undefined, error |-> error]

Rejected(error) ==
    [state |-> "rejected", success |-> FALSE, result |-> Undefined, error |-> error]

\* an MCPToolResponse {content: [{type: "text", text}]}: its text, in pieces,
\* and the number of milliseconds the text names (0: none)
MCPToolResponse(text, ms) == [state |-> "returned", text |-> text, ms |-> ms]

NoResponse == [state |-> "none", text |-> <<>>, ms |-> 0]

\* dispatch's promise rejected: an exception escaped to the caller
Raised == [state |-> "raised", text |-> <<>>, ms |-> 0]

\* the timer of withTimeout and the milliseconds it was set for
NoTimer == [state |-> "none", ms |-> 0]

(***************************************************************************)
(* Commands, health statuses and the records of the registry's calls       *)
(***************************************************************************)

\* the freshness window of healthCache entries, in milliseconds
HealthCacheWindow == 30000

\* the number of times the clock advances
MaxTicks == 2

\* the step of the clock: half a freshness window
TickMs == HealthCacheWindow \div 2

\* the number of calls made on the registry
MaxRegistryCalls == 3

\* a ToolCommand, reduced to its name, its version and which optional hooks
\* (onLoad, onUnload, healthCheck) it declares
Command(name, version, onLoad, onUnload, healthCheck) ==
    [name |-> name, version |-> version, onLoad |-> onLoad, onUnload |-> onUnload,
     healthCheck |-> healthCheck]

NoCommand == Command("", 0, FALSE, FALSE, FALSE)

\* the commands offered for registration under a name: one without hooks
\* and one that declares all three
Commands(name) ==
    { Command(name, 1, FALSE, FALSE, FALSE), Command(name, 2, TRUE, TRUE, TRUE) }

\* the `source` argument of register ('unknown' is its default)
Sources == {"unknown", "plugin"}

\* the tool, source and registeredAt fields of a ToolRegistration
Installed(tool, source, registeredAt) ==
    [tool |-> tool, source |-> source, registeredAt |-> registeredAt]

NoInstalled == Installed(NoCommand, "", 0)

\* a ToolHealthStatus {healthy, message?, lastChecked}
ToolHealthStatus(healthy, message, lastChecked) ==
    [present |-> TRUE, healthy |-> healthy, message |-> message, lastChecked |-> lastChecked]

\* no status: healthCache.get(name) === undefined
NoHealth == [present |-> FALSE, healthy |-> FALSE, message |-> "", lastChecked |-> 0]

\* what onLoad, onUnload and healthCheck throw or reject with: an Error, a
\* string, and a value whose conversion to a string throws a TypeError
HookThrows ==
    { Thrown("Error", "", "", "boom", 0),
      Thrown("string", "", "", "boom", 0),
      Thrown("exotic", "", "", "", 0) }

\* `error instanceof Error ? error.message : String(error)` throws when String(error) does
ErrorMessageThrows(error) == error.cls = "exotic"

\* `error instanceof Error ? error.message : String(error)`
ErrorMessage(error) == error.msg

\* an event the registry publishes: tool:lifecycle (with its state),
\* tool:registered, tool:unregistered, tool:error, tool:health (with its status)
RegistryEvent(type, name, state, status) ==
    [type |-> type, name |-> name, state |-> state, status |-> status]

LifecycleEvent(name, state) == RegistryEvent("tool:lifecycle", name, state, NoHealth)

\* one call of register, unregister, setEnabled, checkHealth or checkAllHealth:
\* its arguments, what it captured, where it stands and what it has produced
RegistryCall(op, name, tool, source, useCache, at) ==
    [op |-> op, name |-> name, tool |-> tool, source |-> source, useCache |-> useCache,
     at |-> at,                 \* register, checkHealth: Date.now() at the call
     state |-> "awaiting",      \* "awaiting", "returned" or "rejected"
     returned |-> FALSE,        \* the boolean unregister / setEnabled returned
     status |-> NoHealth,       \* the status checkHealth returned
     error |-> NoError,         \* what the call rejected with
     events |-> <<>>,           \* the events the call published, in order
     invoked |-> 0,             \* how many times the call invoked healthCheck
     names |-> {},              \* checkAllHealth: the names it captured
     pending |-> {},            \* checkAllHealth: the names whose checkHealth is suspended
     results |-> [n \in ToolNames |-> NoHealth]]   \* checkAllHealth: its result map

RegistryCallIds == 1..MaxRegistryCalls

(***************************************************************************)
(* EventBus records                                                        *)
(***************************************************************************)

\* the number of ListenerSources created
MaxListeners == 3

EventNames == {"tool:health", "system:shutdown"}

ListenerIds == 1..MaxListeners

\* a ListenerSource, with what the closure returned by on captured: the event
\* name and the Set object `handlers`; once: the handler is the wrapper of once
ListenerSource(event, handlers, once) ==
    [created |-> TRUE, event |-> event, handlers |-> handlers, once |-> once,
     source |-> "unknown"]

NoListenerSource ==
    [created |-> FALSE, event |-> "", handlers |-> 0, once |-> FALSE, source |-> ""]

(***************************************************************************)
(* ToolRegistry                                                            *)
(***************************************************************************)

\* a registry whose get finds a command under every name
Get_AnyName(name) == TRUE

\* get without the test of the enabled flag
Get_IgnoresEnabled(name) == tools[name].registered

\* ToolRegistry.get: the command only if its registration is enabled
Get(name) == tools[name].registered /\ tools[name].enabled

\* a delete that leaves the cached status in place
HealthCacheDelete_Keeps(name) == healthCache

\* this.healthCache.delete(name)
HealthCacheDelete(name) == [healthCache EXCEPT ![name] = NoHealth]

\* has that finds no name
Has_Never(name) == FALSE

\* ToolRegistry.has
Has(name) == tools[name].registered

(***************************************************************************)
(* CommandDispatcher: pure parts                                           *)
(***************************************************************************)

\* the ceiling test off by one: > instead of >=
AtCeiling_OffByOne(size) == size > MaxConcurrentExecutions

\* the ceiling test left out
AtCeiling_Never(size) == FALSE

\* this.activeExecutions.size >= this.config.maxConcurrentExecutions
AtCeiling(size) == size >= MaxConcurrentExecutions

\* String(error) of normalizeError throws for a value with no string conversion
NormalizeThrows(error) == error.cls = "exotic"

\* normalizeError without the wrapping of foreign errors
NormalizeError_NoWrap(error, toolName) == error

\* normalizeError: a ToolError is kept, anything else becomes a ToolExecutionError
NormalizeError(error, toolName) ==
    IF error.cls = "ToolError" THEN error
    ELSE ToolExecutionError(toolName, error.msg)

\* only a ZodError counts as a validation failure, any other failure of parse is let through
ValidationFails_ZodOnly(args) == args = "zodError"

\* tool.schema.parse(args): "ok", or it throws a ZodError ("zodError") or
\* something else ("otherError"); both failures become a ToolValidationError
ValidationFails(args) == args # "ok"

ValidationError(toolName, args) ==
    IF args = "zodError" THEN ToolValidationError(toolName, "Invalid arguments")
    ELSE ToolValidationError(toolName, "Failed to validate arguments")

\* the command's own maxExecutionTime ignored
EffectiveTimeout_DefaultOnly(name) == DefaultTimeout

\* tool.metadata?.constraints?.maxExecutionTime || this.config.defaultTimeout
EffectiveTimeout(name) ==
    IF MaxExecutionTime(name) # 0 THEN MaxExecutionTime(name) ELSE DefaultTimeout

\* isMCPResponse: an object with an array `content`
IsMCPResponse(result) == result.t = "mcp"

\* JSON.stringify(result, null, 2) throws a TypeError on a cyclic structure
StringifyThrows(result) == result.t = "cyclic"

JSONStringify(result) == <<"{">> \o result.v \o <<"}">>

\* formatMCPResponse throws when it has to stringify a cyclic structure
FormatThrows(result) == ~IsMCPResponse(result) /\ result.t # "string" /\ StringifyThrows(result)

\* formatMCPResponse: as-is if already an MCP response, else one text block
FormatMCPResponse(result) ==
    IF IsMCPResponse(result) THEN MCPToolResponse(result.v, 0)
    ELSE MCPToolResponse(IF result.t = "string" THEN result.v ELSE JSONStringify(result), 0)

\* formatErrorResponse: "Error: <message>" and, with tracing, the code and the tool
FormatErrorResponse(error) ==
    MCPToolResponse(
        <<"Error: ", error.msg>> \o
            (IF EnableTracing
             THEN <<"Error Code: ", error.code, "Tool: ",
                    IF error.toolName = "" THEN "unknown" ELSE error.toolName>>
             ELSE <<>>),
        error.timeout)

\* a race that lets a later settlement replace the first
RaceSettle_LastWins(current, settlement) == settlement

\* Promise.race: the first settlement is kept, a later one is dropped
RaceSettle(current, settlement) == IF current.state = "pending" THEN settlement ELSE current

\* executeWithTimeout's catch: the normalized failure, or a rejection when
\* normalizeError itself throws
CatchInExecute(error, toolName) ==
    IF NormalizeThrows(error) THEN Rejected(TypeError("Cannot convert object to primitive value"))
    ELSE ResultFailure(NormalizeError(error, toolName))

(***************************************************************************)
(* Initial state: a registry and a dispatcher just constructed             *)
(***************************************************************************)
Init ==
    /\ tools = [n \in ToolNames |-> NoRegistration]
    /\ activeExecutions = {}
    /\ executionCounter = 0
    /\ pc = [id \in RequestIds |-> "idle"]
    /\ request = [id \in RequestIds |-> [name |-> "", arguments |-> ""]]
    /\ exec = [id \in RequestIds |-> Pending]
    /\ handler = [id \in RequestIds |-> "none"]
    /\ timer = [id \in RequestIds |-> NoTimer]
    /\ published = [id \in RequestIds |-> <<>>]
    /\ response = [id \in RequestIds |-> NoResponse]
    /\ handlerCalls = [n \in ToolNames |-> 0]
    /\ installed = [n \in ToolNames |-> NoInstalled]
    /\ healthCache = [n \in ToolNames |-> NoHealth]
    /\ now = HealthCacheWindow
    /\ registryCalls = <<>>
    /\ lifecycle = [n \in ToolNames |-> <<>>]
    /\ listeners = [e \in EventNames |-> 0]
    /\ handlerSets = [h \in ListenerIds |-> {}]
    /\ listenerSources = [l \in ListenerIds |-> NoListenerSource]
    /\ totalListenerCount = 0
    /\ delivered = {}
    /\ personas = << >>
    /\ personaCalls = 0

dispatcherVars == << activeExecutions, executionCounter, pc, request, exec, handler,
                     timer, published, response, handlerCalls >>

(***************************************************************************)
(* ToolRegistry operations, for commands without onLoad / onUnload hooks   *)
(* (register and unregister then run to completion without suspending);    *)
(* the lifecycle events they publish carry no request id and are not       *)
(* recorded here                                                           *)
(***************************************************************************)

unobservedRegistryVars == << now, registryCalls, lifecycle >>

\* register: a name already in the table throws DuplicateToolError, else it is added, enabled
Register(name) ==
    /\ ~Has(name)
    /\ tools' = [tools EXCEPT ![name] = Registration(TRUE)]
    /\ installed' = [installed EXCEPT ![name] =
           Installed(Command(name, 1, FALSE, FALSE, FALSE), "unknown", now)]
    /\ UNCHANGED << dispatcherVars, healthCache, unobservedRegistryVars, busVars, personaVars >>

\* unregister: false for an unknown name, else the registration is removed
Unregister(name) ==
    /\ Has(name)
    /\ tools' = [tools EXCEPT ![name] = NoRegistration]
    /\ installed' = [installed EXCEPT ![name] = NoInstalled]
    /\ healthCache' = HealthCacheDelete(name)
    /\ UNCHANGED << dispatcherVars, unobservedRegistryVars, busVars, personaVars >>

\* setEnabled: false for an unknown name, else the flag is set
SetEnabled(name, enabled) ==
    /\ Has(name)
    /\ tools' = [tools EXCEPT ![name] = Registration(enabled)]
    /\ UNCHANGED << dispatcherVars, registryVars, busVars, personaVars >>

(***************************************************************************)
(* CommandDispatcher.dispatch                                              *)
(***************************************************************************)

\* a dispatch whose clean-up leaves the in-flight entry in place
Released_Keeps(id) == activeExecutions

\* this.activeExecutions.delete(requestId)
Released(id) == activeExecutions \ {id}

\* the catch block of dispatch, entered with `error` after `pub` was published
DispatchCatch(id, toolName, error, pub) ==
    /\ activeExecutions' = Released(id)
    /\ IF NormalizeThrows(error)
       THEN /\ published' = [published EXCEPT ![id] = pub]
            /\ response' = [response EXCEPT ![id] = Raised]
       ELSE LET toolError == NormalizeError(error, toolName) IN
            /\ published' = [published EXCEPT ![id] =
                   pub \o << Event("tool:error", FALSE, toolError.code),
                             Event("tool:execute:end", FALSE, "") >>]
            /\ response' = [response EXCEPT ![id] = FormatErrorResponse(toolError)]
    /\ pc' = [pc EXCEPT ![id] = "done"]

\* the synchronous part of executeWithTimeout: validation, then the handler is
\* invoked (syncThrow: what execute throws before returning a promise, NoError
\* if it returns one) and withTimeout arms the timer
ExecuteWithTimeout(id, name, args, syncThrow) ==
    IF ValidationFails(args)
    THEN /\ exec' = [exec EXCEPT ![id] = CatchInExecute(ValidationError(name, args), name)]
         /\ UNCHANGED << handler, timer, handlerCalls >>
    ELSE /\ handlerCalls' = [handlerCalls EXCEPT ![name] = @ + 1]
         /\ IF syncThrow # NoError
            THEN /\ exec' = [exec EXCEPT ![id] = CatchInExecute(syncThrow, name)]
                 /\ UNCHANGED << handler, timer >>
            ELSE /\ exec' = [exec EXCEPT ![id] = Pending]
                 /\ handler' = [handler EXCEPT ![id] = "running"]
                 /\ timer' = [timer EXCEPT ![id] =
                        [state |-> "armed", ms |-> EffectiveTimeout(name)]]

\* dispatch, from the call to its first suspension (or to its return when the
\* request is refused)
Dispatch(name, args, syncThrow) ==
    /\ executionCounter < MaxCalls
    /\ LET id == executionCounter + 1
           size == Cardinality(activeExecutions) IN
       /\ executionCounter' = id
       /\ request' = [request EXCEPT ![id] = [name |-> name, arguments |-> args]]
       /\ IF AtCeiling(size)
          THEN /\ DispatchCatch(id, name, ResourceError(name), published[id])
               /\ UNCHANGED << exec, handler, timer, handlerCalls >>
          ELSE IF ~Get(name)
          THEN /\ DispatchCatch(id, name, ToolNotFoundError(name), published[id])
               /\ UNCHANGED << exec, handler, timer, handlerCalls >>
          ELSE /\ activeExecutions' = activeExecutions \cup {id}
               /\ published' = [published EXCEPT ![id] =
                      Append(@, Event("tool:execute:start", FALSE, ""))]
               /\ ExecuteWithTimeout(id, name, args, syncThrow)
               /\ pc' = [pc EXCEPT ![id] = "awaiting"]
               /\ UNCHANGED response
    /\ UNCHANGED << tools, registryVars, busVars, personaVars >>

\* the handler's promise resolves with `value`
HandlerResolve(id, value) ==
    /\ handler[id] = "running"
    /\ handler' = [handler EXCEPT ![id] = "settled"]
    /\ exec' = [exec EXCEPT ![id] = RaceSettle(@, ResultSuccess(value))]
    /\ UNCHANGED << tools, activeExecutions, executionCounter, pc, request, timer,
                    published, response, handlerCalls, registryVars, busVars, personaVars >>

\* the handler's promise rejects with `error`
HandlerReject(id, error) ==
    /\ handler[id] = "running"
    /\ handler' = [handler EXCEPT ![id] = "settled"]
    /\ exec' = [exec EXCEPT ![id] = RaceSettle(@, CatchInExecute(error, request[id].name))]
    /\ UNCHANGED << tools, activeExecutions, executionCounter, pc, request, timer,
                    published, response, handlerCalls, registryVars, busVars, personaVars >>

\* the timer of withTimeout fires (it is never cleared)
TimerFire(id) ==
    /\ timer[id].state = "armed"
    /\ timer' = [timer EXCEPT ![id].state = "fired"]
    /\ exec' = [exec EXCEPT ![id] =
           RaceSettle(@, CatchInExecute(ToolTimeoutError(request[id].name, timer[id].ms),
                                        request[id].name))]
    /\ UNCHANGED << tools, activeExecutions, executionCounter, pc, request, handler,
                    published, response, handlerCalls, registryVars, busVars, personaVars >>

\* dispatch resumes after `await this.executeWithTimeout(...)` and runs to its return
DispatchResume(id) ==
    /\ pc[id] = "awaiting"
    /\ exec[id].state # "pending"
    /\ LET result == exec[id]
           name == request[id].name
           pub == Append(published[id], Event("tool:execute:end", result.success, ""))
       IN  IF result.state = "rejected"
           THEN DispatchCatch(id, name, result.error, published[id])
           ELSE IF result.success /\ Truthy(result.result)
           THEN IF FormatThrows(result.result)
                THEN DispatchCatch(id, name,
                         TypeError("Converting circular structure to JSON"), pub)
                ELSE /\ activeExecutions' = Released(id)
                     /\ published' = [published EXCEPT ![id] = pub]
                     /\ response' = [response EXCEPT ![id] = FormatMCPResponse(result.result)]
                     /\ pc' = [pc EXCEPT ![id] = "done"]
           ELSE DispatchCatch(id, name,
                    IF result.error # NoError THEN result.error
                    ELSE ToolExecutionError(name, "Unknown execution error"), pub)
    /\ UNCHANGED << tools, executionCounter, request, exec, handler, timer,
                    handlerCalls, registryVars, busVars, personaVars >>

\* what tool.schema.parse does with the request's arguments
ArgsOutcomes == {"ok", "zodError", "otherError"}

\* Every behaviour of the registry, the schema, the handler and the timer, for
\* MaxDetailedCalls dispatch calls
Next ==
    \/ \E n \in ToolNames : Register(n)
    \/ \E n \in ToolNames : Unregister(n)
    \/ \E n \in ToolNames, e \in BOOLEAN : SetEnabled(n, e)
    \/ \E n \in ToolNames, a \in ArgsOutcomes, t \in HandlerThrows \cup {NoError} :
           executionCounter < MaxDetailedCalls /\ Dispatch(n, a, t)
    \/ \E id \in RequestIds, v \in HandlerValues : HandlerResolve(id, v)
    \/ \E id \in RequestIds, e \in HandlerThrows : HandlerReject(id, e)
    \/ \E id \in RequestIds : TimerFire(id)
    \/ \E id \in RequestIds : DispatchResume(id)

Spec == Init /\ [][Next]_vars

\* The timer callback and the continuation of dispatch are scheduled by the
\* event loop: an armed timer eventually fires, a settled await eventually
\* resumes.  Nothing obliges a handler to settle.
Fairness ==
    /\ \A id \in DetailedIds : WF_vars(TimerFire(id))
    /\ \A id \in DetailedIds : WF_vars(DispatchResume(id))

LiveSpec == Spec /\ Fairness

\* Admission control: MaxCalls dispatch calls of long-running commands whose
\* arguments are valid and whose handlers resolve, or are overtaken by the
\* timer; a timer that can no longer decide a race is not followed further
NextAdmission ==
    \/ \E n \in ToolNames : Register(n)
    \/ \E n \in ToolNames : Unregister(n)
    \/ \E n \in ToolNames, e \in BOOLEAN : SetEnabled(n, e)
    \/ \E n \in ToolNames : Dispatch(n, "ok", NoError)
    \/ \E id \in RequestIds : HandlerResolve(id, Value("string", <<"hi">>))
    \/ \E id \in RequestIds : exec[id].state = "pending" /\ TimerFire(id)
    \/ \E id \in RequestIds : DispatchResume(id)

SpecAdmission == Init /\ [][NextAdmission]_vars

(***************************************************************************)
(* Observations used by the properties                                     *)
(***************************************************************************)

\* the positions in the events of request `id` that hold an event of `type`
EventsOf(id, type) == { i \in 1..Len(published[id]) : published[id][i].type = type }

Issued(id) == pc[id] # "idle"

HasReturned(id) == pc[id] = "done"

\* the request was admitted: it reserved an in-flight slot (dispatch line 77)
Admitted(id) == EventsOf(id, "tool:execute:start") # {}

\* a response whose text is an error text of formatErrorResponse
IsErrorResponse(r) == r.state = "returned" /\ Len(r.text) >= 2 /\ r.text[1] = "Error: "

\* the code of the normalized error a failed request's tool:error event carries
ErrorCodes(id) == { published[id][i].code : i \in EventsOf(id, "tool:error") }

FailedWith(id, code) ==
    /\ HasReturned(id)
    /\ IsErrorResponse(response[id])
    /\ ErrorCodes(id) = {code}
    /\ EnableTracing => response[id].text[4] = code

\* the error kinds of the taxonomy (spec section 7), by their stable code
Taxonomy ==
    { "TOOL_NOT_FOUND", "DUPLICATE_TOOL", "VALIDATION_ERROR", "EXECUTION_ERROR",
      "TIMEOUT_ERROR", "RESOURCE_ERROR", "SANDBOX_ERROR", "PERMISSION_ERROR" }

(***************************************************************************)
(* C1                                                                      *)
(***************************************************************************)

\* C1: every dispatch call that has returned, whatever its outcome, has
\* published an execute:start and an execute:end for its request id, the
\* execute:start before the execute:end.
C1_StartThenEndAlways ==
    \A id \in RequestIds :
        HasReturned(id) =>
            \E i \in EventsOf(id, "tool:execute:start") :
                \E j \in EventsOf(id, "tool:execute:end") : i < j

(***************************************************************************)
(* C2                                                                      *)
(***************************************************************************)

\* C2: a dispatch call that has returned has published execute:end exactly
\* once, and that event's success flag is true iff the response returned is
\* not an error response.
C2_ExactlyOneEnd ==
    \A id \in RequestIds :
        HasReturned(id) =>
            /\ Cardinality(EventsOf(id, "tool:execute:end")) = 1
            /\ \A j \in EventsOf(id, "tool:execute:end") :
                   published[id][j].success = ~IsErrorResponse(response[id])

(***************************************************************************)
(* C4                                                                      *)
(***************************************************************************)

C7_ResolveFirstSucceeds ==
    \A id \in RequestIds :
        (HasReturned(id) /\ exec[id].state = "resolved" /\ exec[id].success) =>
            /\ \A j \in EventsOf(id, "tool:execute:end") : published[id][j].success
            /\ EventsOf(id, "tool:error") = {}
            /\ ~IsErrorResponse(response[id])

(***************************************************************************)
(* C9                                                                      *)
(***************************************************************************)

\* C9: a dispatch whose arguments violate the schema never invokes the
\* handler: the only steps that change the handler-invocation counts are
\* dispatch calls whose arguments pass the schema; and once such an admitted
\* call has returned, its response is a ValidationError and its in-flight slot
\* has been released.
C9_InvalidArgsNeverInvoke ==
    /\ [][ handlerCalls' # handlerCalls =>
             /\ executionCounter' = executionCounter + 1
             /\ request'[executionCounter'].arguments = "ok" ]_vars
    /\ [](\A id \in RequestIds :
             (Issued(id) /\ request[id].arguments # "ok") =>
                 /\ handler[id] = "none"
                 /\ (HasReturned(id) /\ Admitted(id)) =>
                        /\ FailedWith(id, "VALIDATION_ERROR")
                        /\ id \notin activeExecutions)

\* C9 witness: an admitted call with invalid arguments has returned, and no
\* handler was ever invoked
C9_Witness ==
    \E id \in RequestIds :
        /\ HasReturned(id) /\ Admitted(id)
        /\ request[id].arguments = "otherError"
        /\ \A n \in ToolNames : handlerCalls[n] = 0

(***************************************************************************)
(* C5                                                                      *)
(***************************************************************************)

\* the timeout step 6 of dispatch prescribes for a command: its declared
\* maxExecutionTime if it declares one, else the dispatcher default
PrescribedTimeout(name) ==
    IF MaxExecutionTime(name) > 0 THEN MaxExecutionTime(name) ELSE DefaultTimeout

\* the timer of request `id` fired while its handler had not settled
TimedOut(id) ==
    /\ exec[id].state = "resolved"
    /\ ~exec[id].success
    /\ exec[id].error.code = "TIMEOUT_ERROR"

\* C5: when the timer fires before the handler has settled, the race is
\* decided as a TimeoutError, and the dispatch returns a TimeoutError response
\* that names the prescribed timeout, whether or not the handler has settled
\* since; and, timers firing and continuations running, every request in
\* flight eventually returns and leaves the in-flight set, even when its
\* handler never settles.
C5_TimelyTimeout ==
    /\ [](\A id \in RequestIds :
            /\ (timer[id].state = "fired" /\ handler[id] = "running") => TimedOut(id)
            /\ (TimedOut(id) /\ HasReturned(id)) =>
                   /\ FailedWith(id, "TIMEOUT_ERROR")
                   /\ response[id].ms = PrescribedTimeout(request[id].name))
    /\ \A id \in DetailedIds :
           (id \in activeExecutions) ~> (HasReturned(id) /\ id \notin activeExecutions)

\* C5 witness: a dispatch of "slow" has returned its TimeoutError while the
\* handler is still running
C5_Witness ==
    \E id \in RequestIds :
        /\ HasReturned(id)
        /\ handler[id] = "running"
        /\ request[id].name = "slow"
        /\ FailedWith(id, "TIMEOUT_ERROR")
        /\ id \notin activeExecutions

(***************************************************************************)
(* C6                                                                      *)
(***************************************************************************)

\* what a step must leave alone to be without observable effect
Unobserved ==
    /\ published' = published
    /\ response' = response
    /\ activeExecutions' = activeExecutions
    /\ exec' = exec
    /\ pc' = pc

\* C6: a step in which the handler of a timed-out dispatch settles publishes
\* nothing, changes no in-flight entry and changes neither the decided outcome
\* nor the response; and a step in which the timer fires after the handler
\* settled first has no such effect either.
C6_LoserDiscarded ==
    [][ \A id \in RequestIds :
          /\ (TimedOut(id) /\ handler[id] = "running" /\ handler'[id] = "settled")
                 => Unobserved
          /\ (handler[id] = "settled" /\ timer[id].state = "armed"
                  /\ timer'[id].state = "fired")
                 => Unobserved ]_vars

\* C6 witness: the handler of a dispatch that has returned a TimeoutError has
\* settled afterwards
C6_Witness ==
    \E id \in RequestIds :
        /\ HasReturned(id)
        /\ TimedOut(id)
        /\ handler[id] = "settled"
        /\ FailedWith(id, "TIMEOUT_ERROR")

(***************************************************************************)
(* C3                                                                      *)
(***************************************************************************)

\* this step is a call of dispatch (it takes the next request id)
DispatchCalled == executionCounter' = executionCounter + 1

\* the request a dispatch step has just issued was refused on the spot with
\* `code`: it has returned, reserved no slot, invoked no handler, armed no timer
RefusedWith(code) ==
    LET id == executionCounter' IN
    /\ pc'[id] = "done"
    /\ IsErrorResponse(response'[id])
    /\ response'[id].text[4] = code
    /\ published'[id] = << Event("tool:error", FALSE, code),
                           Event("tool:execute:end", FALSE, "") >>
    /\ activeExecutions' = activeExecutions
    /\ handlerCalls' = handlerCalls
    /\ handler'[id] = "none"
    /\ timer'[id] = NoTimer

\* C3: the number of requests in flight never exceeds maxConcurrentExecutions,
\* and a dispatch that arrives when the in-flight count equals the ceiling
\* fails on the spot with ResourceExhausted, whichever command it names
\* (registered or not): it is not queued, reserves no slot, invokes no handler.
C3_Ceiling ==
    /\ [](Cardinality(activeExecutions) <= MaxConcurrentExecutions)
    /\ [][ (DispatchCalled /\ Cardinality(activeExecutions) = MaxConcurrentExecutions)
             => RefusedWith("RESOURCE_ERROR") ]_vars

\* C3 witness: with the ceiling reached, a request for a registered, enabled
\* command has been refused with ResourceExhausted
C3_Witness ==
    \E id \in RequestIds :
        /\ Cardinality(activeExecutions) = MaxConcurrentExecutions
        /\ FailedWith(id, "RESOURCE_ERROR")
        /\ tools[request[id].name] = Registration(TRUE)
        /\ ~Admitted(id)

(***************************************************************************)
(* C8                                                                      *)
(***************************************************************************)

\* the name the dispatch step carries has no enabled registration
NameUnavailable ==
    LET name == request'[executionCounter'].name IN
    ~(tools[name].registered /\ tools[name].enabled)

\* C8 as stated: in every reachable state, a dispatch to a name that is not
\* registered, or is disabled, fails with NotFound and with no other error
\* kind, and no handler is invoked.
C8_AlwaysNotFound ==
    [][ (DispatchCalled /\ NameUnavailable) => RefusedWith("TOOL_NOT_FOUND") ]_vars

\* C8 amended: a dispatch to a name that is not registered, or is disabled,
\* fails with NotFound when the in-flight count is below the ceiling and with
\* ResourceExhausted when it is at the ceiling; it never fails with
\* ExecutionError or any other kind, and no handler is invoked.
C8_NotFoundBelowCeiling ==
    [][ (DispatchCalled /\ NameUnavailable) =>
            IF Cardinality(activeExecutions) >= MaxConcurrentExecutions
            THEN RefusedWith("RESOURCE_ERROR")
            ELSE RefusedWith("TOOL_NOT_FOUND") ]_vars

\* C8 witness: a request for a registered but disabled command has been
\* refused with NotFound while another request was in flight
C8_Witness ==
    \E id \in RequestIds :
        /\ FailedWith(id, "TOOL_NOT_FOUND")
        /\ tools[request[id].name] = Registration(FALSE)
        /\ activeExecutions # {}
        /\ handler[id] = "none"

(***************************************************************************)
(* C10                                                                     *)
(***************************************************************************)

Batch == 1..(MaxConcurrentExecutions + 1)

\* the first MaxConcurrentExecutions + 1 dispatches have all been issued, each
\* found its command registered and enabled if it looked it up, and none of
\* those admitted has completed
BatchInProgress ==
    /\ executionCounter >= MaxConcurrentExecutions + 1
    /\ \A id \in Batch :
           /\ ~FailedWith(id, "TOOL_NOT_FOUND")
           /\ Admitted(id) => pc[id] = "awaiting"

\* C10: M + 1 dispatches of registered long-running commands issued on an idle
\* dispatcher before any of them completes: exactly one fails with
\* ResourceExhausted, the other M are in flight and their handlers were invoked.
C10_ExactlyOneRefused ==
    BatchInProgress =>
        /\ Cardinality({ id \in Batch : FailedWith(id, "RESOURCE_ERROR") }) = 1
        /\ Cardinality({ id \in Batch : id \in activeExecutions /\ handler[id] # "none" })
               = MaxConcurrentExecutions
        /\ activeExecutions \subseteq Batch

\* C10 witness: such a batch, with requests for both commands in flight
C10_Witness ==
    /\ BatchInProgress
    /\ \E id \in Batch : FailedWith(id, "RESOURCE_ERROR")
    /\ \E i, j \in activeExecutions : request[i].name # request[j].name

(***************************************************************************)
(* ToolRegistry: register, unregister and setEnabled call by call, with    *)
(* commands that declare hooks, and the events each call publishes         *)
(***************************************************************************)

DuplicateToolError(toolName) ==
    Thrown("ToolError", "DUPLICATE_TOOL", toolName, "already registered", 0)

\* the ToolError register throws when onLoad failed
RegistrationFailed(toolName, error) ==
    Thrown("ToolError", "EXECUTION_ERROR", toolName, ErrorMessage(error), 0)

\* registryCalls with one more call, and with call `id` replaced
Called(call) == Append(registryCalls, call)

Updated(id, call) == [registryCalls EXCEPT ![id] = call]

\* the lifecycle log of `name` with `states` published
Lifecycle(name, states) == [lifecycle EXCEPT ![name] = @ \o states]

\* the events of register's success path after onLoad: ready, then registered
ReadyEvents(name) ==
    << LifecycleEvent(name, "ready"), RegistryEvent("tool:registered", name, "", NoHealth) >>

\* the events of unregister's success path after onUnload: disposed, then unregistered
DisposedEvents(name) ==
    << LifecycleEvent(name, "disposed"),
       RegistryEvent("tool:unregistered", name, "", NoHealth) >>

\* a table whose set leaves the entry of a name that has one as it is
TableSet_KeepsExisting(name, registration) ==
    IF Has(name) THEN installed ELSE [installed EXCEPT ![name] = registration]

\* this.tools.set(name, registration): the entry of `name` is added or replaced
TableSet(name, registration) == [installed EXCEPT ![name] = registration]

\* register, from the call to its first suspension: at `await tool.onLoad()`
\* when the command declares onLoad, else to its return
RegisterCall(tool, source) ==
    /\ Len(registryCalls) < MaxRegistryCalls
    /\ LET name == tool.name
           call == RegistryCall("register", name, tool, source, FALSE, now)
       IN  IF Has(name)
           THEN /\ registryCalls' = Called([call EXCEPT !.state = "rejected",
                                                        !.error = DuplicateToolError(name)])
                /\ UNCHANGED << tools, installed, lifecycle >>
           ELSE IF tool.onLoad
           THEN /\ registryCalls' = Called([call EXCEPT
                       !.events = << LifecycleEvent(name, "loading") >>])
                /\ lifecycle' = Lifecycle(name, << "loading" >>)
                /\ UNCHANGED << tools, installed >>
           ELSE /\ tools' = [tools EXCEPT ![name] = Registration(TRUE)]
                /\ installed' = TableSet(name, Installed(tool, source, now))
                /\ registryCalls' = Called([call EXCEPT
                       !.state = "returned",
                       !.events = << LifecycleEvent(name, "loading") >> \o ReadyEvents(name)])
                /\ lifecycle' = Lifecycle(name, << "loading", "ready" >>)
    /\ UNCHANGED << dispatcherVars, healthCache, now, busVars, personaVars >>

\* register resumes after `await tool.onLoad()`: onLoad resolved (NoError) or
\* rejected with `outcome`
RegisterResume(id, outcome) ==
    /\ id \in 1..Len(registryCalls)
    /\ registryCalls[id].op = "register"
    /\ registryCalls[id].state = "awaiting"
    /\ LET call == registryCalls[id]
           name == call.name
       IN  IF outcome = NoError
           THEN /\ tools' = [tools EXCEPT ![name] = Registration(TRUE)]
                /\ installed' = TableSet(name, Installed(call.tool, call.source, call.at))
                /\ registryCalls' = Updated(id, [call EXCEPT
                       !.state = "returned", !.events = @ \o ReadyEvents(name)])
                /\ lifecycle' = Lifecycle(name, << "ready" >>)
           ELSE IF ErrorMessageThrows(outcome)
           THEN /\ registryCalls' = Updated(id, [call EXCEPT
                       !.state = "rejected",
                       !.error = TypeError("Cannot convert object to primitive value")])
                /\ UNCHANGED << tools, installed, lifecycle >>
           ELSE /\ registryCalls' = Updated(id, [call EXCEPT
                       !.state = "rejected",
                       !.error = RegistrationFailed(name, outcome),
                       !.events = @ \o << LifecycleEvent(name, "error"),
                                          RegistryEvent("tool:error", name, "", NoHealth) >>])
                /\ lifecycle' = Lifecycle(name, << "error" >>)
                /\ UNCHANGED << tools, installed >>
    /\ UNCHANGED << dispatcherVars, healthCache, now, busVars, personaVars >>

\* unregister, from the call to its first suspension: at
\* `await registration.tool.onUnload()` when the command declares onUnload,
\* else to its return
UnregisterCall(name) ==
    /\ Len(registryCalls) < MaxRegistryCalls
    /\ LET call == RegistryCall("unregister", name, installed[name].tool, "", FALSE, 0)
       IN  IF ~Has(name)
           THEN /\ registryCalls' = Called([call EXCEPT !.state = "returned"])
                /\ UNCHANGED << tools, installed, healthCache, lifecycle >>
           ELSE IF call.tool.onUnload
           THEN /\ registryCalls' = Called([call EXCEPT
                       !.events = << LifecycleEvent(name, "unloading") >>])
                /\ lifecycle' = Lifecycle(name, << "unloading" >>)
                /\ UNCHANGED << tools, installed, healthCache >>
           ELSE /\ tools' = [tools EXCEPT ![name] = NoRegistration]
                /\ installed' = [installed EXCEPT ![name] = NoInstalled]
                /\ healthCache' = HealthCacheDelete(name)
                /\ registryCalls' = Called([call EXCEPT
                       !.state = "returned", !.returned = TRUE,
                       !.events = << LifecycleEvent(name, "unloading") >>
                                  \o DisposedEvents(name)])
                /\ lifecycle' = Lifecycle(name, << "unloading", "disposed" >>)
    /\ UNCHANGED << dispatcherVars, now, busVars, personaVars >>

\* unregister resumes after `await registration.tool.onUnload()`: onUnload
\* resolved (NoError) or rejected with `outcome`
UnregisterResume(id, outcome) ==
    /\ id \in 1..Len(registryCalls)
    /\ registryCalls[id].op = "unregister"
    /\ registryCalls[id].state = "awaiting"
    /\ LET call == registryCalls[id]
           name == call.name
       IN  IF outcome = NoError
           THEN /\ tools' = [tools EXCEPT ![name] = NoRegistration]
                /\ installed' = [installed EXCEPT ![name] = NoInstalled]
                /\ healthCache' = HealthCacheDelete(name)
                /\ registryCalls' = Updated(id, [call EXCEPT
                       !.state = "returned", !.returned = TRUE,
                       !.events = @ \o DisposedEvents(name)])
                /\ lifecycle' = Lifecycle(name, << "disposed" >>)
           ELSE IF ErrorMessageThrows(outcome)
           THEN /\ registryCalls' = Updated(id, [call EXCEPT
                       !.state = "rejected",
                       !.error = TypeError("Cannot convert object to primitive value")])
                /\ UNCHANGED << tools, installed, healthCache, lifecycle >>
           ELSE /\ tools' = [tools EXCEPT ![name] = NoRegistration]
                /\ installed' = [installed EXCEPT ![name] = NoInstalled]
                /\ healthCache' = HealthCacheDelete(name)
                /\ registryCalls' = Updated(id, [call EXCEPT
                       !.state = "returned", !.returned = TRUE,
                       !.events = @ \o << RegistryEvent("tool:error", name, "", NoHealth) >>])
                /\ UNCHANGED lifecycle
    /\ UNCHANGED << dispatcherVars, now, busVars, personaVars >>

\* setEnabled: false for an unknown name, else the flag is set and a
\* lifecycle event published: ready when enabling, disposed when disabling
SetEnabledCall(name, enabled) ==
    /\ Len(registryCalls) < MaxRegistryCalls
    /\ LET call == RegistryCall("setEnabled", name, NoCommand, "", FALSE, 0)
           state == IF enabled THEN "ready" ELSE "disposed"
       IN  IF ~Has(name)
           THEN /\ registryCalls' = Called([call EXCEPT !.state = "returned"])
                /\ UNCHANGED << tools, lifecycle >>
           ELSE /\ tools' = [tools EXCEPT ![name] = Registration(enabled)]
                /\ registryCalls' = Called([call EXCEPT
                       !.state = "returned", !.returned = TRUE,
                       !.events = << LifecycleEvent(name, state) >>])
                /\ lifecycle' = Lifecycle(name, << state >>)
    /\ UNCHANGED << dispatcherVars, installed, healthCache, now, busVars, personaVars >>

\* time passes
Tick ==
    /\ now < HealthCacheWindow + MaxTicks * TickMs
    /\ now' = now + TickMs
    /\ UNCHANGED << tools, dispatcherVars, installed, healthCache, registryCalls,
                    lifecycle, busVars, personaVars >>

(***************************************************************************)
(* ToolRegistry: checkHealth and checkAllHealth                            *)
(***************************************************************************)

\* the test of the cache without its comparison with the clock
Fresh_Always(cached) == cached.present

\* `cached && (Date.now() - cached.lastChecked) < 30000`; no status in this
\* model carries a lastChecked later than the clock
Fresh(cached) == cached.present /\ now - cached.lastChecked < HealthCacheWindow

\* what a healthCheck resolves with: healthy or not, lastChecked being the
\* current time or a time of the command's own, here long past
HealthResults == { ToolHealthStatus(h, "", t) : h \in BOOLEAN, t \in {now, 0} }

\* the status of a command without healthCheck
DefaultHealth == ToolHealthStatus(TRUE, "", now)

\* the catch block of checkHealth, with an error whose message can be read:
\* a healthy status in its place
Unhealthy_Healthy(error) == ToolHealthStatus(TRUE, ErrorMessage(error), now)

\* the catch block of checkHealth and of checkAllHealth, with an error whose
\* message can be read
Unhealthy(error) == ToolHealthStatus(FALSE, ErrorMessage(error), now)

HealthEvent(name, status) == RegistryEvent("tool:health", name, "", status)

\* checkHealth, from the call to its first suspension: at
\* `await registration.tool.healthCheck()` when the command declares
\* healthCheck and the cache is not used, else to its return
CheckHealthCall(name, useCache) ==
    /\ Len(registryCalls) < MaxRegistryCalls
    /\ LET call == RegistryCall("checkHealth", name, installed[name].tool, "", useCache, now)
       IN  IF ~Has(name)
           THEN /\ registryCalls' = Called([call EXCEPT !.state = "rejected",
                                                        !.error = ToolNotFoundError(name)])
                /\ UNCHANGED healthCache
           ELSE IF useCache /\ Fresh(healthCache[name])
           THEN /\ registryCalls' = Called([call EXCEPT !.state = "returned",
                                                        !.status = healthCache[name]])
                /\ UNCHANGED healthCache
           ELSE IF call.tool.healthCheck
           THEN /\ registryCalls' = Called([call EXCEPT !.invoked = 1])
                /\ UNCHANGED healthCache
           ELSE /\ healthCache' = [healthCache EXCEPT ![name] = DefaultHealth]
                /\ registryCalls' = Called([call EXCEPT
                       !.state = "returned", !.status = DefaultHealth,
                       !.events = << HealthEvent(name, DefaultHealth) >>])
    /\ UNCHANGED << tools, dispatcherVars, installed, now, lifecycle, busVars, personaVars >>

\* checkHealth resumes after `await registration.tool.healthCheck()`:
\* healthCheck resolved with the status `outcome`, or rejected with the error `outcome`
CheckHealthResume(id, outcome) ==
    /\ id \in 1..Len(registryCalls)
    /\ registryCalls[id].op = "checkHealth"
    /\ registryCalls[id].state = "awaiting"
    /\ LET call == registryCalls[id]
           name == call.name
           failed == outcome \in HookThrows
           status == IF failed THEN Unhealthy(outcome) ELSE outcome
       IN  IF failed /\ ErrorMessageThrows(outcome)
           THEN /\ registryCalls' = Updated(id, [call EXCEPT
                       !.state = "rejected",
                       !.error = TypeError("Cannot convert object to primitive value")])
                /\ UNCHANGED healthCache
           ELSE /\ healthCache' = [healthCache EXCEPT ![name] = status]
                /\ registryCalls' = Updated(id, [call EXCEPT
                       !.state = "returned", !.status = status,
                       !.events = @ \o << HealthEvent(name, status) >>])
    /\ UNCHANGED << tools, dispatcherVars, installed, now, lifecycle, busVars, personaVars >>

\* the names of `names` taken in the order of the table's keys
RECURSIVE InOrder(_)
InOrder(names) ==
    IF names = {} THEN <<>>
    ELSE LET n == CHOOSE m \in names : TRUE IN << n >> \o InOrder(names \ {n})

\* the health events checkAllHealth publishes before it first suspends: one
\* for every name whose command has no healthCheck
RECURSIVE DefaultHealthEvents(_)
DefaultHealthEvents(order) ==
    IF order = <<>> THEN <<>>
    ELSE (IF installed[Head(order)].tool.healthCheck THEN <<>>
          ELSE << HealthEvent(Head(order), DefaultHealth) >>)
         \o DefaultHealthEvents(Tail(order))

\* getToolNames
GetToolNames == { n \in ToolNames : Has(n) }

\* checkAllHealth, from the call to its suspension at `await Promise.allSettled`:
\* checkHealth(name, false) has run for every name to its own first
\* suspension or to its return
CheckAllHealthCall ==
    /\ Len(registryCalls) < MaxRegistryCalls
    /\ LET names == GetToolNames
           hooked == { n \in names : installed[n].tool.healthCheck }
           call == RegistryCall("checkAllHealth", "", NoCommand, "", FALSE, 0)
       IN  /\ healthCache' = [n \in ToolNames |->
                  IF n \in names \ hooked THEN DefaultHealth ELSE healthCache[n]]
           /\ registryCalls' = Called([call EXCEPT
                  !.names = names,
                  !.pending = hooked,
                  !.invoked = Cardinality(hooked),
                  !.results = [n \in ToolNames |->
                      IF n \in names \ hooked THEN DefaultHealth ELSE NoHealth],
                  !.events = DefaultHealthEvents(InOrder(names))])
    /\ UNCHANGED << tools, dispatcherVars, installed, now, lifecycle, busVars, personaVars >>

\* inside checkAllHealth, the checkHealth of `name` resumes after its
\* healthCheck settled, and its result, or the unhealthy record of the catch
\* block when checkHealth rejected, is stored in the result map
CheckAllHealthSettle(id, name, outcome) ==
    /\ id \in 1..Len(registryCalls)
    /\ registryCalls[id].op = "checkAllHealth"
    /\ registryCalls[id].state = "awaiting"
    /\ name \in registryCalls[id].pending
    /\ LET call == registryCalls[id]
           failed == outcome \in HookThrows
           status == IF failed THEN Unhealthy(outcome) ELSE outcome
       IN  IF failed /\ ErrorMessageThrows(outcome)
           THEN /\ registryCalls' = Updated(id, [call EXCEPT
                       !.pending = @ \ {name},
                       !.results[name] =
                           Unhealthy(TypeError("Cannot convert object to primitive value"))])
                /\ UNCHANGED healthCache
           ELSE /\ healthCache' = [healthCache EXCEPT ![name] = status]
                /\ registryCalls' = Updated(id, [call EXCEPT
                       !.pending = @ \ {name},
                       !.results[name] = status,
                       !.events = @ \o << HealthEvent(name, status) >>])
    /\ UNCHANGED << tools, dispatcherVars, installed, now, lifecycle, busVars, personaVars >>

\* checkAllHealth resumes after `await Promise.allSettled(...)` and returns its map
CheckAllHealthReturn(id) ==
    /\ id \in 1..Len(registryCalls)
    /\ registryCalls[id].op = "checkAllHealth"
    /\ registryCalls[id].state = "awaiting"
    /\ registryCalls[id].pending = {}
    /\ registryCalls' = Updated(id, [registryCalls[id] EXCEPT !.state = "returned"])
    /\ UNCHANGED << tools, dispatcherVars, installed, healthCache, now, lifecycle, busVars, personaVars >>

\* the name register, unregister and setEnabled are called with below
RegistryNames == {"echo"}

\* Every behaviour of MaxRegistryCalls calls of register, unregister and
\* setEnabled for one name and of the hooks they await; the clock advances
\* once, which tells the install times of two registrations apart
NextRegistry ==
    \/ \E n \in RegistryNames, s \in Sources : \E tool \in Commands(n) : RegisterCall(tool, s)
    \/ \E id \in RegistryCallIds, o \in HookThrows \cup {NoError} : RegisterResume(id, o)
    \/ \E n \in RegistryNames : UnregisterCall(n)
    \/ \E id \in RegistryCallIds, o \in HookThrows \cup {NoError} : UnregisterResume(id, o)
    \/ \E n \in RegistryNames, e \in BOOLEAN : SetEnabledCall(n, e)
    \/ now = HealthCacheWindow /\ Tick

SpecRegistry == Init /\ [][NextRegistry]_vars

\* Every behaviour of MaxRegistryCalls calls of register, unregister and
\* checkHealth, of the hooks they await and of the clock
NextHealth ==
    \/ \E n \in ToolNames : \E tool \in Commands(n) : RegisterCall(tool, "unknown")
    \/ \E id \in RegistryCallIds, o \in HookThrows \cup {NoError} : RegisterResume(id, o)
    \/ \E n \in ToolNames : UnregisterCall(n)
    \/ \E id \in RegistryCallIds, o \in HookThrows \cup {NoError} : UnregisterResume(id, o)
    \/ \E n \in ToolNames, c \in BOOLEAN : CheckHealthCall(n, c)
    \/ \E id \in RegistryCallIds, o \in HookThrows \cup HealthResults : CheckHealthResume(id, o)
    \/ Tick

SpecHealth == Init /\ [][NextHealth]_vars

\* Every behaviour of MaxRegistryCalls calls of register, unregister,
\* checkHealth and checkAllHealth and of the hooks they await, at one
\* instant: a cached status is fresh or stale by its lastChecked alone
NextHealthBatch ==
    \/ \E n \in ToolNames : \E tool \in Commands(n) : RegisterCall(tool, "unknown")
    \/ \E id \in RegistryCallIds, o \in HookThrows \cup {NoError} : RegisterResume(id, o)
    \/ \E n \in ToolNames : UnregisterCall(n)
    \/ \E id \in RegistryCallIds, o \in HookThrows \cup {NoError} : UnregisterResume(id, o)
    \/ \E n \in ToolNames, c \in BOOLEAN : CheckHealthCall(n, c)
    \/ \E id \in RegistryCallIds, o \in HookThrows \cup HealthResults : CheckHealthResume(id, o)
    \/ CheckAllHealthCall
    \/ \E id \in RegistryCallIds, n \in ToolNames, o \in HookThrows \cup HealthResults :
           CheckAllHealthSettle(id, n, o)
    \/ \E id \in RegistryCallIds : CheckAllHealthReturn(id)

SpecHealthBatch == Init /\ [][NextHealthBatch]_vars

(***************************************************************************)
(* Observations of the registry's calls                                    *)
(***************************************************************************)

\* the call made by the step: the one just appended to registryCalls
NewCall == registryCalls'[Len(registryCalls')]

\* the step is a call of `op`
CallMade(op) == Len(registryCalls') = Len(registryCalls) + 1 /\ NewCall.op = op

\* call `id` leaves the state "awaiting" in the step
CallResumed(id) ==
    /\ id \in 1..Len(registryCalls)
    /\ registryCalls[id].state = "awaiting"
    /\ registryCalls'[id].state # "awaiting"

\* the states of the tool:lifecycle events among `events`, in order
RECURSIVE LifecycleStates(_)
LifecycleStates(events) ==
    IF events = <<>> THEN <<>>
    ELSE (IF Head(events).type = "tool:lifecycle" THEN << Head(events).state >> ELSE <<>>)
         \o LifecycleStates(Tail(events))

\* the types of `events`, in order, a lifecycle event being named by its state
RECURSIVE EventKinds(_)
EventKinds(events) ==
    IF events = <<>> THEN <<>>
    ELSE << IF Head(events).type = "tool:lifecycle" THEN Head(events).state
            ELSE Head(events).type >>
         \o EventKinds(Tail(events))

(***************************************************************************)
(* C11                                                                     *)
(***************************************************************************)

\* C11: a register call for a name that has a Registration, enabled or
\* disabled, is rejected with DUPLICATE_TOOL without suspending at onLoad and
\* publishes nothing; the Registration of the name keeps its command, source,
\* install time and enabled flag, and the health cache and the lifecycle log
\* are untouched.
C11_DuplicateRejected ==
    [][ (CallMade("register") /\ tools[NewCall.name].registered)
        => /\ NewCall.state = "rejected"
           /\ NewCall.error.code = "DUPLICATE_TOOL"
           /\ NewCall.events = <<>>
           /\ tools' = tools
           /\ installed' = installed
           /\ healthCache' = healthCache
           /\ lifecycle' = lifecycle ]_vars

\* C11 witness: a register call offering another command from another source
\* at a later time was rejected as a duplicate while the name's Registration
\* was disabled
C11_Witness ==
    /\ registryCalls # <<>>
    /\ LET call == registryCalls[Len(registryCalls)] IN
       /\ call.op = "register"
       /\ call.state = "rejected"
       /\ call.error.code = "DUPLICATE_TOOL"
       /\ tools[call.name].registered
       /\ ~tools[call.name].enabled
       /\ installed[call.name].tool # call.tool
       /\ installed[call.name].source # call.source
       /\ installed[call.name].registeredAt # call.at

(***************************************************************************)
(* C12                                                                     *)
(***************************************************************************)

\* an unregister call for `name` returns true in the step
UnregisterReturnsTrue(name) ==
    \E id \in 1..Len(registryCalls') :
        /\ registryCalls'[id].op = "unregister"
        /\ registryCalls'[id].name = name
        /\ registryCalls'[id].returned
        /\ (id > Len(registryCalls) \/ registryCalls[id].state = "awaiting")

\* a register call for `name` returns in the step
RegisterReturns(name) ==
    \E id \in 1..Len(registryCalls') :
        /\ registryCalls'[id].op = "register"
        /\ registryCalls'[id].name = name
        /\ registryCalls'[id].state = "returned"
        /\ (id > Len(registryCalls) \/ registryCalls[id].state = "awaiting")

\* a checkHealth of `name` that was suspended at the command's healthCheck,
\* on its own or inside checkAllHealth, resumes in the step
HealthCheckResumes(name) ==
    \E id \in 1..Len(registryCalls) :
        \/ /\ registryCalls[id].op = "checkHealth"
           /\ registryCalls[id].name = name
           /\ CallResumed(id)
        \/ /\ registryCalls[id].op = "checkAllHealth"
           /\ name \in registryCalls[id].pending
           /\ name \notin registryCalls'[id].pending

\* an unregister call for `name` has returned true and the name has no Registration
Unregistered(name) ==
    /\ ~tools[name].registered
    /\ \E id \in 1..Len(registryCalls) :
           /\ registryCalls[id].op = "unregister"
           /\ registryCalls[id].name = name
           /\ registryCalls[id].returned

\* C12 as stated: whenever unregister(n) has returned true and n has not been
\* registered again, get(n) is not-found, has(n) is false and the health
\* cache has no entry for n.
C12_NoCacheEntryUntilRegistered ==
    \A n \in ToolNames :
        Unregistered(n) => (~Get(n) /\ ~Has(n) /\ ~healthCache[n].present)

\* C12 amended: when unregister(n) returns true, after a clean onUnload or a
\* failed one, get(n) is not-found, has(n) is false and the health cache has
\* no entry for n; has(n) becomes true again only when a register call for n
\* returns; and while n has no Registration a cache entry for n appears only
\* when a checkHealth of n that was already suspended at the command's
\* healthCheck resumes.
C12_RemovedUntilRegistered ==
    [][ \A n \in ToolNames :
          /\ UnregisterReturnsTrue(n)
                => (~Get(n)' /\ ~Has(n)' /\ ~healthCache'[n].present)
          /\ (~tools[n].registered /\ Has(n)') => RegisterReturns(n)
          /\ (~tools[n].registered /\ ~healthCache[n].present /\ healthCache'[n].present)
                => HealthCheckResumes(n) ]_vars

\* C12 witness: unregister has returned true after onUnload failed, for a
\* name whose status had been cached; the name has no Registration and the
\* cache no entry for it
C12_Witness ==
    \E n \in ToolNames :
        /\ Unregistered(n)
        /\ ~healthCache[n].present
        /\ \E id \in 1..Len(registryCalls) :
               /\ registryCalls[id].op = "unregister"
               /\ registryCalls[id].name = n
               /\ registryCalls[id].returned
               /\ Len(registryCalls[id].events) = 2
               /\ registryCalls[id].events[2].type = "tool:error"
        /\ \E id \in 1..Len(registryCalls) :
               /\ registryCalls[id].op = "checkHealth"
               /\ registryCalls[id].name = n
               /\ registryCalls[id].state = "returned"
               /\ registryCalls[id].events # <<>>

(***************************************************************************)
(* C13                                                                     *)
(***************************************************************************)

\* the kinds of the events of call `id`, tool:error events left out
RECURSIVE WithoutErrors(_)
WithoutErrors(kinds) ==
    IF kinds = <<>> THEN <<>>
    ELSE (IF Head(kinds) = "tool:error" THEN <<>> ELSE << Head(kinds) >>)
         \o WithoutErrors(Tail(kinds))

\* C13: every unregister call on a registered name that has returned true,
\* after a clean onUnload or after a failed one, has published for the name
\* lifecycle: unloading, then lifecycle: disposed, then unregistered.
C13_DisposedThenUnregistered ==
    \A id \in 1..Len(registryCalls) :
        (registryCalls[id].op = "unregister" /\ registryCalls[id].returned)
        => WithoutErrors(EventKinds(registryCalls[id].events))
               = << "unloading", "disposed", "tool:unregistered" >>

(***************************************************************************)
(* C14                                                                     *)
(***************************************************************************)

\* register call `id` was rejected after its command's onLoad failed
OnLoadFailed(id) ==
    /\ registryCalls[id].op = "register"
    /\ registryCalls[id].state = "rejected"
    /\ registryCalls[id].error.code # "DUPLICATE_TOOL"

\* C14: when a command's onLoad fails, register rejects without adding the
\* command (the step leaves the table as it was), and the events the call
\* has published are lifecycle: loading, lifecycle: error and one error
\* event, and neither lifecycle: ready nor registered.
C14_OnLoadFailure ==
    /\ [](\A id \in 1..Len(registryCalls) :
            OnLoadFailed(id)
            => EventKinds(registryCalls[id].events) = << "loading", "error", "tool:error" >>)
    /\ [][ \A id \in 1..Len(registryCalls) :
             (registryCalls[id].op = "register" /\ CallResumed(id) /\ OnLoadFailed(id)')
             => (tools' = tools /\ installed' = installed) ]_vars

(***************************************************************************)
(* C15                                                                     *)
(***************************************************************************)

\* the lifecycle state that must directly precede `state` in a name's log
DeclaredPredecessor(state) ==
    IF state \in {"ready", "error"} THEN "loading"
    ELSE IF state = "disposed" THEN "unloading"
    ELSE ""

\* C15: among the lifecycle events published for one name, every ready and
\* every error is directly preceded by loading, and every disposed is
\* directly preceded by unloading.
C15_DeclaredSequence ==
    \A n \in ToolNames : \A i \in 1..Len(lifecycle[n]) :
        lifecycle[n][i] \in {"ready", "error", "disposed"}
        => (i > 1 /\ lifecycle[n][i - 1] = DeclaredPredecessor(lifecycle[n][i]))

(***************************************************************************)
(* C16                                                                     *)
(***************************************************************************)

\* list without the filter on the enabled flag
List_IncludesDisabled == { n \in ToolNames : tools[n].registered }

\* ToolRegistry.list: the commands of the enabled registrations
List == { n \in ToolNames : tools[n].registered /\ tools[n].enabled }

\* ToolRegistry.listRegistrations: all registrations, disabled ones included
ListRegistrations == { n \in ToolNames : tools[n].registered }

\* ToolRegistry.getStats: the three counts
GetStats ==
    LET registrations == ListRegistrations IN
    [totalTools |-> Cardinality(registrations),
     enabledTools |-> Cardinality({ n \in registrations : tools[n].enabled }),
     disabledTools |-> Cardinality({ n \in registrations : ~tools[n].enabled })]

\* the Registration of `name` exists and is disabled: setEnabled(name, false)
\* was the last of setEnabled / register / unregister to act on the name
Disabled(name) == tools[name].registered /\ ~tools[name].enabled

\* the name the dispatch step carries is disabled
DispatchToDisabled == DispatchCalled /\ Disabled(request'[executionCounter'].name)

\* the retained-but-invisible part of C16, common to both statements
DisabledRetainedInvisible ==
    \A n \in ToolNames :
        Disabled(n) =>
            /\ n \in ListRegistrations
            /\ n \in GetToolNames
            /\ GetStats.totalTools = Cardinality(GetToolNames)
            /\ GetStats.disabledTools >= 1
            /\ ~Get(n)
            /\ n \notin List

\* setEnabled(n, true) on a disabled name makes get and list show it again
EnablingRestores ==
    \A n \in ToolNames :
        (Disabled(n) /\ tools'[n].registered /\ tools'[n].enabled)
        => (Get(n)' /\ n \in List')

InvokedWithinWindow(id, name) ==
    /\ registryCalls[id].op = "checkHealth"
    /\ registryCalls[id].name = name
    /\ registryCalls[id].useCache
    /\ registryCalls[id].state = "returned"
    /\ registryCalls[id].invoked = 1
    /\ now - registryCalls[id].at < HealthCacheWindow
    /\ tools[name].registered
    /\ installed[name].registeredAt <= registryCalls[id].at

\* C17: a checkHealth(n, useCache = true) call made within the freshness
\* window of an earlier such call that has returned after invoking
\* healthCheck, whatever status that healthCheck returned, does not invoke
\* healthCheck again: it returns on the spot and publishes no health event.
C17_AtMostOneInvocation ==
    [][ (CallMade("checkHealth") /\ NewCall.useCache
         /\ \E id \in 1..Len(registryCalls) : InvokedWithinWindow(id, NewCall.name))
        => (NewCall.invoked = 0 /\ NewCall.state = "returned" /\ NewCall.events = <<>>) ]_vars

(***************************************************************************)
(* C18                                                                     *)
(***************************************************************************)

\* C18: a checkHealth call rejects only when it is made, and only with
\* NotFound, for a name without a Registration; for a command without
\* healthCheck it returns a healthy status; and a call that was suspended at
\* the command's healthCheck always returns when it resumes, never rejects:
\* the status it returns is unhealthy and carries the message when the
\* healthCheck failed, is stored in the cache, and is carried by the one
\* health event the call publishes.
C18_NeverRejectsOnFailure ==
    /\ [][ CallMade("checkHealth") =>
             /\ (NewCall.state = "rejected") <=> ~tools[NewCall.name].registered
             /\ NewCall.state = "rejected" => NewCall.error.code = "TOOL_NOT_FOUND"
             /\ (NewCall.state = "returned" /\ NewCall.events # <<>>)
                   => NewCall.status.healthy ]_vars
    /\ [][ \A id \in 1..Len(registryCalls) :
             (registryCalls[id].op = "checkHealth" /\ CallResumed(id)) =>
                LET call == registryCalls'[id] IN
                /\ call.state = "returned"
                /\ call.status.present
                /\ call.status.message # "" => ~call.status.healthy
                /\ healthCache'[call.name] = call.status
                /\ call.events = << HealthEvent(call.name, call.status) >> ]_vars

(***************************************************************************)
(* C19                                                                     *)
(***************************************************************************)

\* checkAllHealth call `id` returns in the step
BatchReturns(id) ==
    /\ registryCalls[id].op = "checkAllHealth"
    /\ CallResumed(id)
    /\ registryCalls'[id].state = "returned"

\* the map of a checkAllHealth call has an entry for exactly the names the
\* call captured
OneEntryPerName(call) ==
    \A n \in ToolNames : call.results[n].present <=> n \in call.names

\* no checkAllHealth call is ever rejected, and the names a call captures are
\* those registered when it is made
BatchNeverAborts ==
    /\ [](\A id \in 1..Len(registryCalls) :
            registryCalls[id].op = "checkAllHealth" => registryCalls[id].state # "rejected")
    /\ [][ CallMade("checkAllHealth") => NewCall.names = { n \in ToolNames : tools[n].registered } ]_vars
    /\ [][ \A id \in 1..Len(registryCalls) :
             BatchReturns(id) => OneEntryPerName(registryCalls'[id]) ]_vars

dispatcherAndRegistryVars == << tools, dispatcherVars, registryVars >>

\* the number of ListenerSources created so far
Created == Cardinality({ l \in ListenerIds : listenerSources[l].created })

\* the ListenerSources emit(event) would invoke: the members of the Set the
\* map holds for the event
Subscribed(event) == IF listeners[event] = 0 THEN {} ELSE handlerSets[listeners[event]]

\* on: the Set of the event is created if the map has none, a new
\* ListenerSource is added to it, and the closure captures both.  A Set is
\* named after the first ListenerSource put into it.  once: the handler is
\* the wrapper of once, which calls the closure after the handler returned
On(event, once) ==
    /\ Created < MaxListeners
    /\ LET l == Created + 1
           handlers == IF listeners[event] = 0 THEN l ELSE listeners[event]
       IN  /\ listeners' = [listeners EXCEPT ![event] = handlers]
           /\ handlerSets' = [handlerSets EXCEPT ![handlers] = @ \cup {l}]
           /\ listenerSources' = [listenerSources EXCEPT ![l] =
                  ListenerSource(event, handlers, once)]
           /\ totalListenerCount' = totalListenerCount + 1
    /\ UNCHANGED << delivered, dispatcherAndRegistryVars, personaVars >>

\* the closure returned by on for ListenerSource `l` is called: it deletes
\* `l` from the Set it captured, counts down if `l` was in it, and deletes
\* the event's entry of the map when the captured Set is empty
Unsubscribe(l) ==
    /\ listenerSources[l].created
    /\ LET handlers == listenerSources[l].handlers
           removed == l \in handlerSets[handlers]
       IN  /\ handlerSets' = [handlerSets EXCEPT ![handlers] = @ \ {l}]
           /\ totalListenerCount' =
                  IF removed THEN totalListenerCount - 1 ELSE totalListenerCount
           /\ listeners' = IF handlerSets[handlers] \ {l} = {}
                           THEN [listeners EXCEPT ![listenerSources[l].event] = 0]
                           ELSE listeners
    /\ UNCHANGED << listenerSources, delivered, dispatcherAndRegistryVars, personaVars >>

\* off(event): the event's entry of the map is deleted; the Set it held and
\* totalListenerCount are left as they are
Off(event) ==
    /\ listeners' = [listeners EXCEPT ![event] = 0]
    /\ UNCHANGED << handlerSets, listenerSources, totalListenerCount, delivered,
                    dispatcherAndRegistryVars, personaVars >>

\* off(): the map is cleared
OffAll ==
    /\ listeners' = [e \in EventNames |-> 0]
    /\ UNCHANGED << handlerSets, listenerSources, totalListenerCount, delivered,
                    dispatcherAndRegistryVars, personaVars >>

\* the first ListenerSource of `thrown` in the order of forEach, which is the
\* order of insertion, hence of creation
FirstThrown(thrown) == CHOOSE m \in thrown : \A l \in thrown : m <= l

\* forEach without the try/catch around the handler: the iteration ends at
\* the first handler that throws
Invoked_StopsAtThrow(handlers, thrown) ==
    IF thrown = {} THEN handlers ELSE { l \in handlers : l <= FirstThrown(thrown) }

\* the ListenerSources whose handler one emit invokes when those of `thrown`
\* throw: forEach visits every member of the Set, the exception of a handler
\* being caught and logged inside the callback
Invoked(handlers, thrown) == handlers

\* what emit(event) does to the bus: every member of the event's Set is
\* invoked, a throwing handler (those of `thrown`) being logged and passed
\* over; the wrappers of once whose handler returned then call their closure
Publish(event, thrown) ==
    /\ thrown \subseteq Subscribed(event)
    /\ delivered' = Invoked(Subscribed(event), thrown)
    /\ IF listeners[event] = 0
       THEN UNCHANGED << listeners, handlerSets, totalListenerCount >>
       ELSE LET handlers == listeners[event]
                removed == { l \in Invoked(handlerSets[handlers], thrown) :
                                 listenerSources[l].once /\ l \notin thrown }
            IN  /\ handlerSets' = [handlerSets EXCEPT ![handlers] = @ \ removed]
                /\ totalListenerCount' = totalListenerCount - Cardinality(removed)
                /\ listeners' = IF removed # {} /\ handlerSets[handlers] \ removed = {}
                                THEN [listeners EXCEPT ![event] = 0]
                                ELSE listeners
    /\ UNCHANGED listenerSources

\* emit(event) on a bus none of whose handlers calls the registry or the
\* dispatcher
Emit(event, thrown) ==
    Publish(event, thrown) /\ UNCHANGED << dispatcherAndRegistryVars, personaVars >>

\* Every behaviour of a bus on which MaxListeners subscriptions are made
NextBus ==
    \/ \E e \in EventNames, once \in BOOLEAN : On(e, once)
    \/ \E l \in ListenerIds : Unsubscribe(l)
    \/ \E e \in EventNames : Off(e)
    \/ OffAll
    \/ \E e \in EventNames : \E thrown \in SUBSET ListenerIds : Emit(e, thrown)

SpecBus == Init /\ [][NextBus]_vars

(***************************************************************************)
(* C20                                                                     *)
(***************************************************************************)

\* ListenerSource `l` is registered: emit of its event invokes it
Registered(l) == \E e \in EventNames : l \in Subscribed(e)

\* C20: a call of the closure on returned for one handler, made at any point
\* and any number of times, removes no other handler: every other handler
\* that is registered before the call is registered after it.
C20_RemovesOnlyItsHandler ==
    [][ \A l \in ListenerIds :
          Unsubscribe(l) =>
              \A other \in ListenerIds \ {l} : Registered(other) => Registered(other)' ]_vars


(***************************************************************************)
(* C21                                                                     *)
(***************************************************************************)

\* the step is an emit that invokes ListenerSource `l`
Invokes(l) ==
    \E e \in EventNames : \E thrown \in SUBSET ListenerIds :
        Emit(e, thrown) /\ l \in Subscribed(e)

\* C21: a handler subscribed with once is unsubscribed as soon as it has been
\* invoked once, whatever the handler does: after an emit that invokes it, it
\* is no longer registered (so no later emit invokes it again and it no longer
\* counts).
C21_OnceUnsubscribedWhenInvoked ==
    [][ \A l \in ListenerIds :
          (listenerSources[l].once /\ Invokes(l)) => ~Registered(l)' ]_vars


(***************************************************************************)
(* C22                                                                     *)
(***************************************************************************)

\* the step is emit(e) in which the handlers of the non-empty set `thrown`
\* throw
EmitWithFault(e, thrown) == thrown # {} /\ Emit(e, thrown)

\* the subscriptions after emit(e) are those before it less the once
\* handlers that returned: nothing is added or removed because of `thrown`
SubscriptionsKept(e, thrown) ==
    /\ \A l \in ListenerIds :
           Registered(l)' <=>
               /\ Registered(l)
               /\ ~(l \in Subscribed(e) /\ listenerSources[l].once /\ l \notin thrown)
    /\ \A l \in thrown : Registered(l)'

RegistryListeners == { l \in ListenerIds : listenerSources[l].source = "ToolRegistry" }

\* the constructor: on('system:shutdown', handleShutdown, 'ToolRegistry'); the
\* closure on returns is dropped
ConstructRegistry ==
    /\ RegistryListeners = {}
    /\ Created < MaxListeners
    /\ LET l == Created + 1
           event == "system:shutdown"
           handlers == IF listeners[event] = 0 THEN l ELSE listeners[event]
       IN  /\ listeners' = [listeners EXCEPT ![event] = handlers]
           /\ handlerSets' = [handlerSets EXCEPT ![handlers] = @ \cup {l}]
           /\ listenerSources' = [listenerSources EXCEPT ![l] =
                  [ListenerSource(event, handlers, FALSE) EXCEPT !.source = "ToolRegistry"]]
           /\ totalListenerCount' = totalListenerCount + 1
    /\ UNCHANGED << delivered, dispatcherAndRegistryVars, personaVars >>

\* the calls of unregister that clear makes, one for every name of `order`,
\* each taken to its first suspension (a command with onUnload) or to its
\* return (a command without)
RECURSIVE ClearCalls(_)
ClearCalls(order) ==
    IF order = <<>> THEN <<>>
    ELSE LET name == Head(order)
             call == RegistryCall("unregister", name, installed[name].tool, "", FALSE, 0)
         IN  << IF call.tool.onUnload
                THEN [call EXCEPT !.events = << LifecycleEvent(name, "unloading") >>]
                ELSE [call EXCEPT !.state = "returned", !.returned = TRUE,
                                  !.events = << LifecycleEvent(name, "unloading") >>
                                             \o DisposedEvents(name)] >>
             \o ClearCalls(Tail(order))

\* handleShutdown, hence clear, from the call to its suspension at
\* `await Promise.allSettled`: unregister has run for every name of the table
\* to its own first suspension or to its return
Clear ==
    LET names == GetToolNames
        hookless == { n \in names : ~installed[n].tool.onUnload }
    IN  /\ Len(registryCalls) + Cardinality(names) <= MaxRegistryCalls
        /\ tools' = [n \in ToolNames |-> IF n \in hookless THEN NoRegistration ELSE tools[n]]
        /\ installed' = [n \in ToolNames |->
               IF n \in hookless THEN NoInstalled ELSE installed[n]]
        /\ healthCache' = [n \in ToolNames |->
               IF n \in hookless THEN NoHealth ELSE healthCache[n]]
        /\ lifecycle' = [n \in ToolNames |->
               IF n \in hookless THEN lifecycle[n] \o << "unloading", "disposed" >>
               ELSE IF n \in names THEN lifecycle[n] \o << "unloading" >>
               ELSE lifecycle[n]]
        /\ registryCalls' = registryCalls \o ClearCalls(InOrder(names))
        /\ UNCHANGED now

\* emit('system:shutdown'): the handlers of the event's Set are invoked, and
\* handleShutdown among them when the registry's ListenerSource is in that
\* Set; handleShutdown is an async function and never throws to emit
EmitShutdown(thrown) ==
    /\ thrown \cap RegistryListeners = {}
    /\ Publish("system:shutdown", thrown)
    /\ IF RegistryListeners \cap Invoked(Subscribed("system:shutdown"), thrown) # {}
       THEN Clear
       ELSE UNCHANGED << tools, registryVars >>
    /\ UNCHANGED << dispatcherVars, personaVars >>

\* the command registered under `name`: "echo" declares the hooks, "slow" none
ShutdownCommand(name) ==
    IF name = "echo" THEN Command(name, 2, TRUE, TRUE, TRUE)
    ELSE Command(name, 1, FALSE, FALSE, FALSE)

\* Every behaviour of one registry constructed on a bus that other components
\* subscribe to, unsubscribe from and publish shutdown on
NextShutdown ==
    \/ ConstructRegistry
    \/ On("system:shutdown", FALSE)
    \/ \E l \in ListenerIds \ RegistryListeners : Unsubscribe(l)
    \/ Off("system:shutdown")
    \/ OffAll
    \/ \E n \in ToolNames :
           RegistryListeners # {} /\ RegisterCall(ShutdownCommand(n), "unknown")
    \/ \E id \in RegistryCallIds : RegisterResume(id, NoError)
    \/ \E id \in RegistryCallIds : \E outcome \in {NoError} \cup HookThrows :
           UnregisterResume(id, outcome)
    \/ \E thrown \in SUBSET ListenerIds : EmitShutdown(thrown)

SpecShutdown == Init /\ [][NextShutdown]_vars

(***************************************************************************)
(* C23                                                                     *)
(***************************************************************************)

\* the step publishes system:shutdown on the bus of a constructed registry
ShutdownPublished ==
    RegistryListeners # {} /\ \E thrown \in SUBSET ListenerIds : EmitShutdown(thrown)

\* an unregister of `name` has published unloading and awaits onUnload
Unloading(name) ==
    \E id \in 1..Len(registryCalls) :
        /\ registryCalls[id].op = "unregister"
        /\ registryCalls[id].name = name
        /\ registryCalls[id].state = "awaiting"

\* the unregister call `id` leaves its await of onUnload in the step
TeardownFinishes(id) == CallResumed(id) /\ registryCalls[id].op = "unregister"

\* C23: whenever system:shutdown is published on the bus the registry was
\* constructed with, the registry performs clear: every command registered at
\* that moment is removed or is being unloaded, and is no longer registered
\* when its teardown finishes, even if its onUnload hook failed.
C23_ShutdownClears ==
    [][ /\ ShutdownPublished =>
               \A n \in ToolNames : Has(n) => (~Has(n)' \/ Unloading(n)')
        /\ \A id \in RegistryCallIds :
               TeardownFinishes(id) => ~Has(registryCalls[id].name)' ]_vars


(***************************************************************************)
(* PersonaRegistry                                                         *)
(***************************************************************************)

\* the number of calls of PersonaRegistry.register
MaxPersonaCalls == 4

PersonaIds == {"charles", "ada", "xavier"}

PersonaNames == {"Charles", "Fake Charles"}

\* a Persona, by the fields the registry reads (id) and a caller can tell two
\* personas of one id apart by (name)
Persona(id, name) == [id |-> id, name |-> name]

Personas == { Persona(id, name) : id \in PersonaIds, name \in PersonaNames }

\* the position of the entry of key `id` in the Map, 0 when it has none
PersonaIndex(id) ==
    IF \E i \in 1..Len(personas) : personas[i].id = id
    THEN CHOOSE i \in 1..Len(personas) : personas[i].id = id
    ELSE 0

\* a Map whose set adds an entry whatever the key
MapSet_Appends(persona) == Append(personas, persona)

\* Map.prototype.set(persona.id, persona): the value of an existing key is
\* replaced where it stands, a new key is added at the end
MapSet(persona) ==
    IF PersonaIndex(persona.id) = 0
    THEN Append(personas, persona)
    ELSE [personas EXCEPT ![PersonaIndex(persona.id)] = persona]

\* PersonaRegistry.get
PersonaGet(id) == IF PersonaIndex(id) = 0 THEN << >> ELSE << personas[PersonaIndex(id)] >>

\* PersonaRegistry.list: the values of the Map
PersonaList == personas

\* PersonaRegistry.register
PersonaRegister(persona) ==
    /\ personaCalls < MaxPersonaCalls
    /\ personas' = MapSet(persona)
    /\ personaCalls' = personaCalls + 1
    /\ UNCHANGED << dispatcherAndRegistryVars, busVars >>

NextPersonas == \E persona \in Personas : PersonaRegister(persona)

SpecPersonas == Init /\ [][NextPersonas]_vars

(***************************************************************************)
(* C24                                                                     *)
(***************************************************************************)

\* list() holds no two personas of one id
NoTwoOfOneId ==
    \A i, j \in 1..Len(PersonaList) : PersonaList[i].id = PersonaList[j].id => i = j

ListenerCount(event) == Cardinality(Subscribed(event))

\* getTotalListenerCount, also totalListeners of getDebugInfo
GetTotalListenerCount == totalListenerCount

\* the sum of listenerCount over the event names of `events`
RECURSIVE SumOfCounts(_)
SumOfCounts(events) ==
    IF events = {} THEN 0
    ELSE LET e == CHOOSE x \in events : TRUE
         IN  ListenerCount(e) + SumOfCounts(events \ {e})

\* C25: after any sequence of on, once, closure calls, off(event), off() and
\* emit, getTotalListenerCount equals the sum over the event names of
\* listenerCount, the number of handlers registered (0 after off()).
C25_TotalIsSumOfCounts == GetTotalListenerCount = SumOfCounts(EventNames)


(***************************************************************************)
(* C26                                                                     *)
(***************************************************************************)

\* the dispatch calls that were admitted and have not returned
InFlight == { id \in RequestIds : Admitted(id) /\ ~HasReturned(id) }

\* C26: no in-flight slot leaks: activeExecutions holds exactly the request
\* ids of the dispatch calls that were admitted and have not yet returned, so
\* it is empty when no dispatch is pending.
C26_NoSlotLeak == activeExecutions = InFlight

\* an admitted dispatch has timed out and returned, and its slot is free
C26_Witness ==
    \E id \in RequestIds :
        /\ Admitted(id) /\ HasReturned(id) /\ TimedOut(id)
        /\ id \notin activeExecutions
        /\ InFlight = {}


(***************************************************************************)
(* C27                                                                     *)
(***************************************************************************)

\* the register call `id` resumes after onLoad and returns in the step
RegisterSucceeds(id) ==
    /\ CallResumed(id)
    /\ registryCalls[id].op = "register"
    /\ registryCalls'[id].state = "returned"

\* the calls of register for `name` that returned, having published registered
Registrations(name) ==
    { id \in 1..Len(registryCalls) :
          /\ registryCalls[id].op = "register"
          /\ registryCalls[id].name = name
          /\ registryCalls[id].state = "returned" }

\* C27 (as stated): of two register calls for one name that overlap at most
\* one succeeds: a register call never completes successfully for a name that
\* another call has registered in the meantime.
C27_AtMostOneSucceeds ==
    [][ \A id \in RegistryCallIds :
          RegisterSucceeds(id) => ~Has(registryCalls[id].name) ]_vars

\* C27 (amended): a register call that resumes after a successful onLoad
\* always succeeds, whether or not the name was registered while it was
\* suspended: it publishes ready and registered, and the Registration kept
\* under the name is its own, enabled (the last call to complete wins).
C27_LastCompletedWins ==
    [][ \A id \in RegistryCallIds :
          RegisterSucceeds(id) =>
              LET call == registryCalls[id] IN
              /\ installed'[call.name] = Installed(call.tool, call.source, call.at)
              /\ tools'[call.name] = Registration(TRUE)
              /\ registryCalls'[id].events = call.events \o ReadyEvents(call.name) ]_vars

\* two overlapping register calls for one name, made with different sources,
\* have both succeeded (nothing was unregistered), and the Registration kept
\* is not that of the call made first
C27_Witness ==
    \E i, j \in Registrations("echo") :
        /\ i < j
        /\ registryCalls[i].source # registryCalls[j].source
        /\ \A k \in 1..Len(registryCalls) : registryCalls[k].op = "register"
        /\ installed["echo"].source = registryCalls[j].source


(***************************************************************************)
(* C28                                                                     *)
(***************************************************************************)

\* the health cache holds an entry for `name`, which has no Registration
Orphaned(name) == healthCache[name].present /\ ~Has(name)

TeardownBegun(name) ==
    \E id \in 1..Len(registryCalls) :
        /\ registryCalls[id].op = "unregister"
        /\ registryCalls[id].name = name
        /\ registryCalls[id].events # << >>

\* Every behaviour of register and unregister calls for one name, of the
\* hooks they await, and of MaxDetailedCalls dispatch calls made to that name
\* once its teardown has begun
NextTeardown ==
    \/ \E n \in RegistryNames : \E tool \in Commands(n) : RegisterCall(tool, "unknown")
    \/ \E id \in RegistryCallIds : RegisterResume(id, NoError)
    \/ \E n \in RegistryNames : UnregisterCall(n)
    \/ \E id \in RegistryCallIds, o \in HookThrows \cup {NoError} : UnregisterResume(id, o)
    \/ \E n \in RegistryNames :
           /\ executionCounter < MaxDetailedCalls
           /\ TeardownBegun(n)
           /\ Dispatch(n, "ok", NoError)
    \/ \E id \in RequestIds : HandlerResolve(id, Value("string", <<"hi">>))
    \/ \E id \in RequestIds : exec[id].state = "pending" /\ TimerFire(id)
    \/ \E id \in RequestIds : DispatchResume(id)

SpecTeardown == Init /\ [][NextTeardown]_vars

(***************************************************************************)
(* C29                                                                     *)
(***************************************************************************)

\* the step invokes the handler of `name`
HandlerStarts(name) == handlerCalls'[name] = handlerCalls[name] + 1

\* C29 (as stated): once unregister(n) has invoked n's onUnload hook, no
\* dispatch starts n's handler: no handler starts while an unregister of its
\* command awaits onUnload.
C29_NeverExecutedInTeardown ==
    [][ \A n \in ToolNames : HandlerStarts(n) => ~Unloading(n) ]_vars

\* C29 (amended): a dispatch starts n's handler exactly as long as n is in
\* the table and enabled, which it still is while unregister awaits onUnload;
\* from the return of unregister(n) with true, n is not in the table and no
\* dispatch starts its handler until n is registered again.
C29_ExecutedUntilRemoved ==
    [][ \A n \in ToolNames :
          /\ HandlerStarts(n) => (tools[n].registered /\ tools[n].enabled)
          /\ UnregisterReturnsTrue(n) => ~tools'[n].registered ]_vars

\* a dispatch made after the teardown of "echo" had begun was admitted and
\* its handler invoked, "echo" having been registered only once; the
\* unregister has since returned true
C29_Witness ==
    /\ \E id \in RequestIds :
           Admitted(id) /\ request[id].name = "echo" /\ handlerCalls["echo"] >= 1
    /\ Cardinality({ k \in 1..Len(registryCalls) : registryCalls[k].op = "register" }) = 1
    /\ Unregistered("echo")


(***************************************************************************)
(* C30                                                                     *)
(***************************************************************************)

\* the dispatch calls whose handler was invoked and has not settled
RunningHandlers == { id \in RequestIds : handler[id] = "running" }

\* C30 (as stated): the number of handler invocations started and not yet
\* settled is at most maxConcurrentExecutions, also after dispatches have
\* timed out.
C30_RunningHandlersBounded == Cardinality(RunningHandlers) <= MaxConcurrentExecutions

\* C30 (amended): the ceiling bounds the dispatches that were admitted and
\* have not returned, not the handlers: a handler that is running without
\* holding an in-flight slot is one whose dispatch timed out, and it keeps
\* running beside the dispatches admitted since.
C30_InFlightBounded ==
    /\ Cardinality(activeExecutions) <= MaxConcurrentExecutions
    /\ \A id \in RunningHandlers \ activeExecutions : TimedOut(id) /\ HasReturned(id)

\* more handlers are running than the ceiling admits, one of them for a
\* dispatch that timed out and returned
C30_Witness ==
    /\ Cardinality(RunningHandlers) > MaxConcurrentExecutions
    /\ \E id \in RunningHandlers : TimedOut(id) /\ HasReturned(id)
    /\ Cardinality(activeExecutions) = MaxConcurrentExecutions

====
